---- MODULE Spec2Model ----
(***************************************************************************)
(* Model of the DREEM bit-vector decoder (dreem/bit_vector.py) and of the  *)
(* mutation histogram aggregator (dreem/mutation_histogram.py).            *)
(*                                                                         *)
(* Spec       two MutationHistogram shards with the same identity, fed by  *)
(*            record_bit_vector / record_skip and folded by merge, beside  *)
(*            one histogram that records every event.                      *)
(* SpecIdent  two histograms whose identity fields are drawn              *)
(*            independently, fed and merged the same way.                  *)
(* SpecMerge  __merge_paired_bit_vectors applied to two bit vectors.       *)
(* SpecClassify  __convert_read_to_bit_vector applied to one aligned read. *)
(* SpecPipe   BitVectorGenerator.__record_bit_vector applied to the units  *)
(*            of work of a run, single reads or mate pairs.                *)
(* SpecAmbig  __calc_ambig_reads applied to one deletion of a reference.   *)
(* SpecDist   record_bit_vector on a longer reference, then the mutation   *)
(*            distribution of get_percent_mutations.                       *)
(* SpecCigar  _parse_cigar applied to one CIGAR text.                      *)
(* SpecNext   BitVectorIterator.__next__ applied to the next unit of work. *)
(* SpecDel    __convert_read_to_bit_vector applied to a read with one      *)
(*            deletion run.                                                *)
(* SpecFold   merge_all_merge_mut_histo_dicts applied to a list of         *)
(*            per-batch dictionaries of histogram objects.                 *)
(***************************************************************************)
EXTENDS Integers, Sequences, FiniteSets, TLC

VARIABLES
    mh,      \* shard id -> MutationHistogram (one accumulator per batch)
    whole,   \* one MutationHistogram that records every event of every shard
    nrec,    \* number of record_bit_vector / record_skip calls made so far
    phase,   \* "record" while batches are scanned, "merged" after the reduction
    herr,    \* "none", or the exception the last histogram call raised
    last,    \* the last histogram call: its name, arguments and pre-state
    pm,      \* the two bit vectors of a mate pair and their merge
    cl,      \* an aligned read and its classification
    params,  \* the run configuration of BitVectorGenerator.run
    paired,  \* whether the units of work are mate pairs
    mut_histos,  \* BitVectorGenerator._mut_histos: reference name -> histogram
    written,     \* the lines the bit vector writers have written
    gerr,        \* "none", or the exception that ended the generator's loop
    nunits,      \* number of units of work handled so far
    lastunit,    \* the last unit of work handled, and the histogram before it
    am,      \* a call of __calc_ambig_reads: its arguments and its result
    cg,      \* a CIGAR string and what _parse_cigar made of it
    nx,      \* a call of BitVectorIterator.__next__: the unit and the outcome
    dist,    \* a histogram of a longer reference and the reads recorded in it
    fd       \* the heap and the dictionaries of merge_all_merge_mut_histo_dicts

histoVars == <<mh, whole, nrec, phase, herr, last>>

pipeVars == <<params, paired, mut_histos, written, gerr, nunits, lastunit>>

auxVars == <<am, cg, nx, dist, fd>>

vars == <<mh, whole, nrec, phase, herr, last, pm, cl,
          params, paired, mut_histos, written, gerr, nunits, lastunit,
          am, cg, nx, dist, fd>>

----------------------------------------------------------------------------
(* Bounds of the model.                                                    *)

\* Total number of record_bit_vector / record_skip calls in a run of Spec.
MaxReads == 2

\* Total number of record calls in a run of SpecIdent.
MaxIdentReads == 1

\* Number of units of work in a run of SpecPipe.
MaxUnits == 2

----------------------------------------------------------------------------
(* Symbols of a bit vector: BitVectorIterator.__init__.                    *)

bases == {"A", "C", "G", "T"}

miss_info == "*"

ambig_info == "?"

nomut_bit == "0"

del_bit == "1"

Symbols == bases \cup {miss_info, ambig_info, nomut_bit, del_bit}

\* The absent optional argument (Python None) of an integer parameter.
NoCoord == 0 - 1

\* The absent structure annotation (Python None).
NoStructure == "None"

\* The skip reasons MutationHistogram.__init__ creates counters for.
SkipReasons == {"low_mapq", "short_read", "too_many_muts"}

\* The bit vectors over the positions P and the symbols S: dicts position -> symbol.
BitVectorsOver(P, S) == UNION {[D -> S] : D \in SUBSET P}

----------------------------------------------------------------------------
(* MutationHistogram                                                       *)

\* np.zeros(len(sequence) + 1): indices 0 .. len(sequence)
zeros(sequence) == [k \in 0..Len(sequence) |-> 0]

MutationHistogram(name, sequence, data_type, start, end) ==
    [ name |-> name,
      sequence |-> sequence,
      structure |-> NoStructure,
      data_type |-> data_type,
      num_reads |-> 0,
      num_aligned |-> 0,
      skips |-> [t \in SkipReasons |-> 0],
      num_of_mutations |-> zeros(sequence),
      mut_bases |-> zeros(sequence),
      info_bases |-> zeros(sequence),
      del_bases |-> zeros(sequence),
      ins_bases |-> zeros(sequence),
      cov_bases |-> zeros(sequence),
      mod_bases |-> [b \in bases |-> zeros(sequence)],
      start |-> IF start = NoCoord THEN 1 ELSE start,
      end |-> IF end = NoCoord THEN Len(sequence) ELSE end ]

get_nuc_coords(self) == self.start .. self.end

\* arr with one added at every index of S.
Bump(arr, S) == [k \in DOMAIN arr |-> IF k \in S THEN arr[k] + 1 ELSE arr[k]]

\* The element-wise sum a += b of two arrays of the same shape.
AddArrays(a, b) == [k \in DOMAIN a |-> a[k] + b[k]]

\* A plausible slip: an ambiguous position counted as covered.
record_bit_vector_covers_ambig(self, bit_vector) ==
    LET present == {pos \in get_nuc_coords(self) : pos \in DOMAIN bit_vector}
        muts == {pos \in present : bit_vector[pos] \in bases}
        dels == {pos \in present : bit_vector[pos] = del_bit}
    IN  [ self EXCEPT
            !.num_reads = @ + 1,
            !.num_aligned = @ + 1,
            !.cov_bases = Bump(@, present),
            !.mod_bases = [b \in bases |->
                             Bump(@[b], {pos \in muts : bit_vector[pos] = b})],
            !.mut_bases = Bump(@, muts),
            !.del_bases = Bump(@, dels),
            !.info_bases = Bump(@, present),
            !.num_of_mutations = Bump(@, {Cardinality(muts)}) ]

\* self.record_bit_vector(bit_vector, p), with p.bit_vector.ambig_info and
\* p.bit_vector.del_bit the symbols of the decoder.
record_bit_vector(self, bit_vector) ==
    LET present == {pos \in get_nuc_coords(self) : pos \in DOMAIN bit_vector}
        covered == {pos \in present : bit_vector[pos] # ambig_info}
        muts == {pos \in present : bit_vector[pos] \in bases}
        dels == {pos \in present : bit_vector[pos] = del_bit}
    IN  [ self EXCEPT
            !.num_reads = @ + 1,
            !.num_aligned = @ + 1,
            !.cov_bases = Bump(@, covered),
            !.mod_bases = [b \in bases |->
                             Bump(@[b], {pos \in muts : bit_vector[pos] = b})],
            !.mut_bases = Bump(@, muts),
            !.del_bases = Bump(@, dels),
            !.info_bases = Bump(@, present),
            !.num_of_mutations = Bump(@, {Cardinality(muts)}) ]

\* A plausible slip: a skipped read counted as aligned.
record_skip_counts_aligned(self, t) ==
    [ self EXCEPT !.num_reads = @ + 1, !.num_aligned = @ + 1, !.skips[t] = @ + 1 ]

record_skip(self, t) ==
    [ self EXCEPT !.num_reads = @ + 1, !.skips[t] = @ + 1 ]

\* A plausible slip: the structure annotation left out of the identity check.
IdentityMismatch_no_structure(self, other) ==
    \/ self.name # other.name
    \/ self.sequence # other.sequence
    \/ self.data_type # other.data_type
    \/ self.start # other.start
    \/ self.end # other.end

\* The six guards of merge: any of them raises ValueError before a field is touched.
IdentityMismatch(self, other) ==
    \/ self.name # other.name
    \/ self.sequence # other.sequence
    \/ self.data_type # other.data_type
    \/ self.start # other.start
    \/ self.end # other.end
    \/ self.structure # other.structure

\* A plausible slip: the mut_bases line pasted twice.
merge_sums_mut_twice(self, other) ==
    [ self EXCEPT
        !.num_reads = @ + other.num_reads,
        !.num_aligned = @ + other.num_aligned,
        !.skips = [key \in DOMAIN self.skips |-> @[key] + other.skips[key]],
        !.num_of_mutations = AddArrays(@, other.num_of_mutations),
        !.mut_bases = AddArrays(AddArrays(@, other.mut_bases), other.mut_bases),
        !.ins_bases = AddArrays(@, other.ins_bases),
        !.cov_bases = AddArrays(@, other.cov_bases),
        !.info_bases = AddArrays(@, other.info_bases),
        !.mod_bases = [key \in DOMAIN self.mod_bases |->
                         AddArrays(@[key], other.mod_bases[key])] ]

\* A plausible slip: the line that sums num_aligned left out.
merge_keeps_num_aligned(self, other) ==
    [ self EXCEPT
        !.num_reads = @ + other.num_reads,
        !.skips = [key \in DOMAIN self.skips |-> @[key] + other.skips[key]],
        !.num_of_mutations = AddArrays(@, other.num_of_mutations),
        !.mut_bases = AddArrays(@, other.mut_bases),
        !.ins_bases = AddArrays(@, other.ins_bases),
        !.cov_bases = AddArrays(@, other.cov_bases),
        !.info_bases = AddArrays(@, other.info_bases),
        !.mod_bases = [key \in DOMAIN self.mod_bases |->
                         AddArrays(@[key], other.mod_bases[key])] ]

\* The receiver after self.merge(other) when no guard raised.  The statements
\* sum every field named in the source; del_bases is not among them.
merge(self, other) ==
    [ self EXCEPT
        !.num_reads = @ + other.num_reads,
        !.num_aligned = @ + other.num_aligned,
        !.skips = [key \in DOMAIN self.skips |-> @[key] + other.skips[key]],
        !.num_of_mutations = AddArrays(@, other.num_of_mutations),
        !.mut_bases = AddArrays(@, other.mut_bases),
        !.ins_bases = AddArrays(@, other.ins_bases),
        !.cov_bases = AddArrays(@, other.cov_bases),
        !.info_bases = AddArrays(@, other.info_bases),
        !.mod_bases = [key \in DOMAIN self.mod_bases |->
                         AddArrays(@[key], other.mod_bases[key])] ]

----------------------------------------------------------------------------
(* The decoder: BitVectorIterator                                          *)

\* qscore_cutoff, the default BitVectorGenerator.run leaves in place.
qscore_cutoff == 25

\* num_of_surbases, the default BitVectorGenerator.run leaves in place.
num_of_surbases == 10

\* The Phred+33 scores of the quality characters the reads of the model carry
\* (resources/phred_ascii.txt, read by parse_phred_qscore_file).
phred_qscores == [c \in {"9", ":", ";"} |->
                    CASE c = "9" -> 24 [] c = ":" -> 25 [] c = ";" -> 26]

DigitChars == {"0", "1", "2", "3", "4", "5", "6", "7", "8", "9"}

UpperChars ==
    {"A", "B", "C", "D", "E", "F", "G", "H", "I", "J", "K", "L", "M", "N", "O",
     "P", "Q", "R", "S", "T", "U", "V", "W", "X", "Y", "Z"}

DigitValue(c) ==
    CASE c = "0" -> 0 [] c = "1" -> 1 [] c = "2" -> 2 [] c = "3" -> 3
      [] c = "4" -> 4 [] c = "5" -> 5 [] c = "6" -> 6 [] c = "7" -> 7
      [] c = "8" -> 8 [] c = "9" -> 9

\* int(op[0]) of a string of decimal digits.
RECURSIVE ToInt(_)
ToInt(ds) ==
    IF ds = <<>> THEN 0
    ELSE 10 * ToInt(SubSeq(ds, 1, Len(ds) - 1)) + DigitValue(ds[Len(ds)])

\* The index after the run of digits that starts at k.
RECURSIVE DigitRunEnd(_, _)
DigitRunEnd(s, k) ==
    IF k <= Len(s) /\ s[k] \in DigitChars THEN DigitRunEnd(s, k + 1) ELSE k

\* re.findall(r"(\d+)([A-Z]{1})", s) from index k on: the non-overlapping
\* matches, leftmost first; a character no match starts at is passed over.
RECURSIVE FindAll(_, _)
FindAll(s, k) ==
    IF k > Len(s) THEN <<>>
    ELSE IF s[k] \notin DigitChars THEN FindAll(s, k + 1)
    ELSE LET e == DigitRunEnd(s, k)
         IN  IF e <= Len(s) /\ s[e] \in UpperChars
               THEN <<(<<SubSeq(s, k, e - 1), s[e]>>)>> \o FindAll(s, e + 1)
               ELSE FindAll(s, k + 1)

\* A CIGAR string is a sequence of characters; the result is the list of
\* (digits, letter) tuples.
parse_cigar(cigar_string) == FindAll(cigar_string, 1)

\* s[a:b] of a Python sequence: a negative index counts from the end, an index
\* past either end is clipped.
PySlice(s, a, b) ==
    LET n == Len(s)
        Clip(x) == IF x < 0 THEN (IF x + n < 0 THEN 0 ELSE x + n)
                   ELSE (IF x > n THEN n ELSE x)
    IN  SubSeq(s, Clip(a) + 1, Clip(b))

calc_ambig_reads(ref_seq, i, length) ==
    LET orig_del_start == i - length + 1
        orig_sur_start == orig_del_start - num_of_surbases
        orig_sur_end == i + num_of_surbases
        orig_sur_seq ==
            PySlice(ref_seq, orig_sur_start - 1, orig_del_start - 1)
              \o PySlice(ref_seq, i, orig_sur_end)
        sur_seq(new_del_end) ==
            LET new_del_start == new_del_end - length + 1
            IN  PySlice(ref_seq, orig_sur_start - 1, new_del_start - 1)
                  \o PySlice(ref_seq, new_del_end, orig_sur_end)
    IN  \E new_del_end \in (i - length) .. (i + length) :
            /\ new_del_end # i
            /\ sur_seq(new_del_end) = orig_sur_seq

\* bitvector after bitvector[pos] = bits[pos] for every pos of bits.
PutAll(bitvector, bits) ==
    [pos \in DOMAIN bitvector \cup DOMAIN bits |->
        IF pos \in DOMAIN bits THEN bits[pos] ELSE bitvector[pos]]

\* The symbol of one base of a match/mismatch run: reference coordinate i
\* (1-based), read coordinate j (0-based).
MatchBit(read, ref_seq, i, j) ==
    IF phred_qscores[read.qual[j + 1]] > qscore_cutoff
      THEN IF read.seq[j + 1] # ref_seq[i] THEN read.seq[j + 1] ELSE nomut_bit
      ELSE ambig_info

\* Whether base k of a match/mismatch run raises IndexError: q_scores[j] is
\* always read, read_seq[j] and ref_seq[i - 1] only above the cutoff.
MatchRaises(read, ref_seq, i, j) ==
    \/ j + 1 > Len(read.qual)
    \/ /\ phred_qscores[read.qual[j + 1]] > qscore_cutoff
       /\ (j + 1 > Len(read.seq) \/ i > Len(ref_seq))

\* A plausible slip: every position of a deletion run marked by the outcome
\* of the ambiguity check, the positions before the last one included.
RECURSIVE ConvertOps_deletion_all_checked(_, _, _, _, _, _, _)
ConvertOps_deletion_all_checked(read, ref_seq, cigar_ops, op_index, bitvector, i, j) ==
    IF op_index > Len(cigar_ops) THEN [raised |-> "none", data |-> bitvector]
    ELSE
      LET op == cigar_ops[op_index]
          desc == op[2]
          length == ToInt(op[1])
      IN  CASE desc = "M" ->
                 IF \E k \in 0 .. length - 1 :
                        MatchRaises(read, ref_seq, i + k, j + k)
                   THEN [raised |-> "IndexError", data |-> <<>>]
                   ELSE ConvertOps_deletion_all_checked(read, ref_seq, cigar_ops, op_index + 1,
                            PutAll(bitvector,
                                   [pos \in i .. i + length - 1 |->
                                      MatchBit(read, ref_seq, pos,
                                               j + (pos - i))]),
                            i + length, j + length)
            [] desc = "D" ->
                 LET end == IF length >= 1 THEN i + length - 1 ELSE i
                     is_ambig == calc_ambig_reads(ref_seq, end, length)
                 IN  ConvertOps_deletion_all_checked(read, ref_seq, cigar_ops, op_index + 1,
                         PutAll(bitvector,
                                [pos \in i .. end |->
                                   IF is_ambig
                                     THEN ambig_info ELSE del_bit]),
                         end + 1, j)
            [] desc = "I" ->
                 ConvertOps_deletion_all_checked(read, ref_seq, cigar_ops, op_index + 1, bitvector,
                            i, j + length)
            [] desc = "S" ->
                 IF op_index = Len(cigar_ops)
                   THEN ConvertOps_deletion_all_checked(read, ref_seq, cigar_ops, op_index + 1,
                            PutAll(bitvector,
                                   [pos \in i .. i + length - 1 |->
                                      miss_info]),
                            i + length, j + length)
                   ELSE ConvertOps_deletion_all_checked(read, ref_seq, cigar_ops, op_index + 1,
                                   bitvector, i, j + length)
            [] OTHER -> [raised |-> "none", data |-> <<>>]

\* The while loop of __convert_read_to_bit_vector from operation op_index
\* (1-based) on: [raised, data].
RECURSIVE ConvertOps(_, _, _, _, _, _, _)
ConvertOps(read, ref_seq, cigar_ops, op_index, bitvector, i, j) ==
    IF op_index > Len(cigar_ops) THEN [raised |-> "none", data |-> bitvector]
    ELSE
      LET op == cigar_ops[op_index]
          desc == op[2]
          length == ToInt(op[1])
      IN  CASE desc = "M" ->
                 IF \E k \in 0 .. length - 1 :
                        MatchRaises(read, ref_seq, i + k, j + k)
                   THEN [raised |-> "IndexError", data |-> <<>>]
                   ELSE ConvertOps(read, ref_seq, cigar_ops, op_index + 1,
                            PutAll(bitvector,
                                   [pos \in i .. i + length - 1 |->
                                      MatchBit(read, ref_seq, pos,
                                               j + (pos - i))]),
                            i + length, j + length)
            [] desc = "D" ->
                 LET end == IF length >= 1 THEN i + length - 1 ELSE i
                     is_ambig == calc_ambig_reads(ref_seq, end, length)
                 IN  ConvertOps(read, ref_seq, cigar_ops, op_index + 1,
                         PutAll(bitvector,
                                [pos \in i .. end |->
                                   IF pos < end \/ is_ambig
                                     THEN ambig_info ELSE del_bit]),
                         end + 1, j)
            [] desc = "I" ->
                 ConvertOps(read, ref_seq, cigar_ops, op_index + 1, bitvector,
                            i, j + length)
            [] desc = "S" ->
                 IF op_index = Len(cigar_ops)
                   THEN ConvertOps(read, ref_seq, cigar_ops, op_index + 1,
                            PutAll(bitvector,
                                   [pos \in i .. i + length - 1 |->
                                      miss_info]),
                            i + length, j + length)
                   ELSE ConvertOps(read, ref_seq, cigar_ops, op_index + 1,
                                   bitvector, i, j + length)
            [] OTHER -> [raised |-> "none", data |-> <<>>]

convert_read_to_bit_vector(read, ref_seq) ==
    ConvertOps(read, ref_seq, parse_cigar(read.cigar), 1, <<>>, read.pos, 0)

\* A plausible slip: the missing-information rule tried before the ambiguity rule.
MergeBit_missing_first(bit_1, bit) ==
    LET bits == {bit_1, bit}
    IN  CASE nomut_bit \in bits -> [bit |-> nomut_bit, warned |-> FALSE]
          [] miss_info \in bits ->
               [bit |-> CHOOSE o \in bits \ {miss_info} : TRUE, warned |-> FALSE]
          [] ambig_info \in bits ->
               [bit |-> CHOOSE o \in bits \ {ambig_info} : TRUE, warned |-> FALSE]
          [] bit_1 \in bases /\ bit \in bases ->
               [bit |-> ambig_info, warned |-> FALSE]
          [] \/ bit_1 = del_bit /\ bit \in bases
             \/ bit_1 \in bases /\ bit = del_bit ->
               [bit |-> ambig_info, warned |-> FALSE]
          [] OTHER -> [bit |-> bit_1, warned |-> TRUE]

\* A plausible slip: the deletion-against-base rule written for one order of
\* the mates only.
MergeBit_deletion_first_only(bit_1, bit) ==
    LET bits == {bit_1, bit}
    IN  CASE nomut_bit \in bits -> [bit |-> nomut_bit, warned |-> FALSE]
          [] ambig_info \in bits ->
               [bit |-> CHOOSE o \in bits \ {ambig_info} : TRUE, warned |-> FALSE]
          [] miss_info \in bits ->
               [bit |-> CHOOSE o \in bits \ {miss_info} : TRUE, warned |-> FALSE]
          [] bit_1 \in bases /\ bit \in bases ->
               [bit |-> ambig_info, warned |-> FALSE]
          [] bit_1 = del_bit /\ bit \in bases ->
               [bit |-> ambig_info, warned |-> FALSE]
          [] OTHER -> [bit |-> bit_1, warned |-> TRUE]

\* The merged symbol of a position both mates hold with different symbols, and
\* whether the else branch (log.warn) was taken.
MergeBit(bit_1, bit) ==
    LET bits == {bit_1, bit}
    IN  CASE nomut_bit \in bits -> [bit |-> nomut_bit, warned |-> FALSE]
          [] ambig_info \in bits ->
               [bit |-> CHOOSE o \in bits \ {ambig_info} : TRUE, warned |-> FALSE]
          [] miss_info \in bits ->
               [bit |-> CHOOSE o \in bits \ {miss_info} : TRUE, warned |-> FALSE]
          [] bit_1 \in bases /\ bit \in bases ->
               [bit |-> ambig_info, warned |-> FALSE]
          [] \/ bit_1 = del_bit /\ bit \in bases
             \/ bit_1 \in bases /\ bit = del_bit ->
               [bit |-> ambig_info, warned |-> FALSE]
          [] OTHER -> [bit |-> bit_1, warned |-> TRUE]

\* The positions of the two vectors whose merge takes the else branch.
MergeWarnings(bit_vector_1, bit_vector_2) ==
    {pos \in DOMAIN bit_vector_1 \cap DOMAIN bit_vector_2 :
        /\ bit_vector_2[pos] # bit_vector_1[pos]
        /\ MergeBit(bit_vector_1[pos], bit_vector_2[pos]).warned}

\* Every position of bit_vector_2 is visited once and only its own entry is
\* written, so the loop is a map over the positions.
merge_paired_bit_vectors(bit_vector_1, bit_vector_2) ==
    [pos \in DOMAIN bit_vector_1 \cup DOMAIN bit_vector_2 |->
        IF pos \notin DOMAIN bit_vector_1 THEN bit_vector_2[pos]
        ELSE IF pos \notin DOMAIN bit_vector_2 THEN bit_vector_1[pos]
        ELSE IF bit_vector_2[pos] = bit_vector_1[pos] THEN bit_vector_1[pos]
        ELSE MergeBit(bit_vector_1[pos], bit_vector_2[pos]).bit]

get_bit_vector_single(read, ref_seqs) ==
    convert_read_to_bit_vector(read, ref_seqs[read.rname])

\* [raised, data]: an exception of either conversion ends the call.
get_bit_vector_paired(read_1, read_2, ref_seqs) ==
    LET ref_seq == ref_seqs[read_1.rname]
        bit_vector_1 == convert_read_to_bit_vector(read_1, ref_seq)
        bit_vector_2 == convert_read_to_bit_vector(read_2, ref_seq)
    IN  IF bit_vector_1.raised # "none" THEN bit_vector_1
        ELSE IF bit_vector_2.raised # "none" THEN bit_vector_2
        ELSE [raised |-> "none",
              data |-> merge_paired_bit_vectors(bit_vector_1.data,
                                                bit_vector_2.data)]

----------------------------------------------------------------------------
(* The histogram state machine                                             *)

\* The reference the shards accumulate, as BitVectorGenerator builds them:
\* MutationHistogram(ref_name, seq, "DMS", 1, len(seq)).
RefName == "ref"

RefSeq == <<"A", "C">>

Positions == 1 .. Len(RefSeq)

Shards == {1, 2}

FreshHistogram == MutationHistogram(RefName, RefSeq, "DMS", 1, Len(RefSeq))

\* The symbols the histogram inputs carry at the positions after the first.
TailSymbols == {nomut_bit, "T"}

\* The bit vectors handed to record_bit_vector: every symbol or none at the
\* first position, a symbol of TailSymbols or none at each later one.
HistoBitVectors ==
    {bv \in BitVectorsOver(Positions, Symbols) :
        \A pos \in DOMAIN bv : pos > 1 => bv[pos] \in TailSymbols}

NoCall ==
    [ op |-> "none", into |-> 0, from |-> 0, bit_vector |-> <<>>, t |-> "none",
      pre |-> FreshHistogram, other |-> FreshHistogram ]

\* The values of the variables a specification does not use.
IdlePair == [bit_vector_1 |-> <<>>, bit_vector_2 |-> <<>>, done |-> FALSE,
             merged |-> <<>>, warned |-> FALSE]

IdleRead == [read |-> <<>>, done |-> FALSE, raised |-> "none", data |-> <<>>]

IdleUnit == [reads |-> <<>>, data |-> <<>>, pre |-> FreshHistogram,
             pre_written |-> <<>>]

DecoderIdle == pm = IdlePair /\ cl = IdleRead

IdleCall == [done |-> FALSE]

AuxIdle ==
    /\ am = IdleCall
    /\ cg = IdleCall
    /\ nx = IdleCall
    /\ dist = IdleCall
    /\ fd = IdleCall

PipeIdle ==
    /\ params = <<>>
    /\ paired = FALSE
    /\ mut_histos = <<>>
    /\ written = <<>>
    /\ gerr = "none"
    /\ nunits = 0
    /\ lastunit = IdleUnit

HistoIdle ==
    /\ mh = <<>>
    /\ whole = FreshHistogram
    /\ nrec = 0
    /\ phase = "idle"
    /\ herr = "none"
    /\ last = NoCall

\* The (start, end) arguments the shards of one run are constructed with.
Windows == {<<NoCoord, NoCoord>>, <<NoCoord, 1>>}

Init ==
    /\ \E w \in Windows :
          /\ mh = [i \in Shards |->
                     MutationHistogram(RefName, RefSeq, "DMS", w[1], w[2])]
          /\ whole = MutationHistogram(RefName, RefSeq, "DMS", w[1], w[2])
    /\ nrec = 0
    /\ phase = "record"
    /\ herr = "none"
    /\ last = NoCall
    /\ DecoderIdle
    /\ PipeIdle
    /\ AuxIdle

\* mh[i].record_bit_vector(bit_vector, p); the same read goes to `whole`.
RecordBitVector(i, bit_vector, cap) ==
    /\ phase = "record"
    /\ nrec < cap
    /\ mh' = [mh EXCEPT ![i] = record_bit_vector(@, bit_vector)]
    /\ whole' = record_bit_vector(whole, bit_vector)
    /\ nrec' = nrec + 1
    /\ last' = [NoCall EXCEPT !.op = "record_bit_vector", !.into = i,
                              !.bit_vector = bit_vector, !.pre = mh[i]]
    /\ UNCHANGED <<phase, herr, pm, cl, pipeVars, auxVars>>

\* mh[i].record_skip(t); the same skip goes to `whole`.
RecordSkip(i, t, cap) ==
    /\ phase = "record"
    /\ nrec < cap
    /\ mh' = [mh EXCEPT ![i] = record_skip(@, t)]
    /\ whole' = record_skip(whole, t)
    /\ nrec' = nrec + 1
    /\ last' = [NoCall EXCEPT !.op = "record_skip", !.into = i, !.t = t,
                              !.pre = mh[i]]
    /\ UNCHANGED <<phase, herr, pm, cl, pipeVars, auxVars>>

\* mh[i].merge(mh[j]): the reduction that ends the scan.
Merge(i, j) ==
    /\ phase = "record"
    /\ i # j
    /\ phase' = "merged"
    /\ last' = [NoCall EXCEPT !.op = "merge", !.into = i, !.from = j,
                              !.pre = mh[i], !.other = mh[j]]
    /\ IF IdentityMismatch(mh[i], mh[j])
         THEN /\ herr' = "ValueError"
              /\ UNCHANGED mh
         ELSE /\ herr' = "none"
              /\ mh' = [mh EXCEPT ![i] = merge(mh[i], mh[j])]
    /\ UNCHANGED <<whole, nrec, pm, cl, pipeVars, auxVars>>

Next ==
    \/ \E i \in Shards, bit_vector \in HistoBitVectors :
          RecordBitVector(i, bit_vector, MaxReads)
    \/ \E i \in Shards, t \in SkipReasons : RecordSkip(i, t, MaxReads)
    \/ \E i \in Shards, j \in Shards : Merge(i, j)

Spec == Init /\ [][Next]_vars

----------------------------------------------------------------------------
(* Histograms of differing identity                                        *)

\* mh.structure = row["structure"]: the annotation attached after construction.
WithStructure(self, structure) == [self EXCEPT !.structure = structure]

\* FreshHistogram, and the six histograms that differ from it in one identity
\* field each.
IdentHistograms ==
    { FreshHistogram,
      MutationHistogram("other", RefSeq, "DMS", 1, Len(RefSeq)),
      MutationHistogram(RefName, <<"A", "G">>, "DMS", 1, Len(RefSeq)),
      MutationHistogram(RefName, RefSeq, "MUT", 1, Len(RefSeq)),
      MutationHistogram(RefName, RefSeq, "DMS", Len(RefSeq), Len(RefSeq)),
      MutationHistogram(RefName, RefSeq, "DMS", 1, 1),
      WithStructure(FreshHistogram, "(.)") }

InitIdent ==
    /\ mh \in [Shards -> IdentHistograms]
    /\ whole = FreshHistogram
    /\ nrec = 0
    /\ phase = "record"
    /\ herr = "none"
    /\ last = NoCall
    /\ DecoderIdle
    /\ PipeIdle
    /\ AuxIdle

NextIdent ==
    \/ \E i \in Shards, bit_vector \in HistoBitVectors :
          RecordBitVector(i, bit_vector, MaxIdentReads)
    \/ \E i \in Shards, t \in SkipReasons : RecordSkip(i, t, MaxIdentReads)
    \/ \E i \in Shards, j \in Shards : Merge(i, j)

SpecIdent == InitIdent /\ [][NextIdent]_vars

----------------------------------------------------------------------------
(* The pair merge on its own                                               *)

\* The bit vectors of the two mates: every dict over the positions and symbols.
MateBitVectors == BitVectorsOver(Positions, Symbols)

InitMerge ==
    /\ \E bit_vector_1 \in MateBitVectors, bit_vector_2 \in MateBitVectors :
          pm = [IdlePair EXCEPT !.bit_vector_1 = bit_vector_1,
                                !.bit_vector_2 = bit_vector_2]
    /\ cl = IdleRead
    /\ HistoIdle
    /\ PipeIdle
    /\ AuxIdle

\* bit_vector = self.__merge_paired_bit_vectors(bit_vector_1, bit_vector_2)
MergePair ==
    /\ ~pm.done
    /\ pm' = [pm EXCEPT
                !.done = TRUE,
                !.merged = merge_paired_bit_vectors(pm.bit_vector_1,
                                                    pm.bit_vector_2),
                !.warned = MergeWarnings(pm.bit_vector_1,
                                         pm.bit_vector_2) # {}]
    /\ UNCHANGED <<cl, histoVars, pipeVars, auxVars>>

NextMerge == MergePair

SpecMerge == InitMerge /\ [][NextMerge]_vars

----------------------------------------------------------------------------
(* The classification of one read on its own                               *)

\* dreem.sam.AlignedRead, with the fields the decoder and the gates read.
AlignedRead(qname, rname, pos, mapq, cigar, seq, qual) ==
    [qname |-> qname, rname |-> rname, pos |-> pos, mapq |-> mapq,
     cigar |-> cigar, seq |-> seq, qual |-> qual]

\* fasta_to_dict(fasta): reference name -> sequence.
ref_seqs == [name \in {RefName} |-> RefSeq]

\* The sequences of length n over the set S.
SeqsOf(S, n) == [1 .. n -> S]

\* The CIGAR strings of the reads, each with the read length it implies and
\* the number of reference positions it consumes before a trailing clip.
Cigars ==
    { [text |-> <<"1", "M">>, readlen |-> 1, span |-> 1],
      [text |-> <<"2", "M">>, readlen |-> 2, span |-> 2],
      [text |-> <<"1", "S", "1", "M">>, readlen |-> 2, span |-> 1],
      [text |-> <<"1", "M", "1", "S">>, readlen |-> 2, span |-> 1],
      [text |-> <<"1", "M", "1", "I">>, readlen |-> 2, span |-> 1],
      [text |-> <<"1", "M", "1", "D">>, readlen |-> 1, span |-> 2],
      [text |-> <<"1", "M", "1", "N">>, readlen |-> 1, span |-> 1] }

\* The reads SpecClassify classifies: every base and quality string of the
\* length the CIGAR implies, at every start that keeps the aligned span
\* inside the reference.
InitClassify ==
    /\ \E c \in Cigars, pos \in Positions :
          /\ pos + c.span - 1 <= Len(RefSeq)
          /\ \E seq \in SeqsOf(bases, c.readlen),
                qual \in SeqsOf(DOMAIN phred_qscores, c.readlen) :
                cl = [IdleRead EXCEPT
                        !.read = AlignedRead("q", RefName, pos, 0, c.text,
                                             seq, qual)]
    /\ pm = IdlePair
    /\ HistoIdle
    /\ PipeIdle
    /\ AuxIdle

\* data = self.__get_bit_vector_single(reads[0])
Classify ==
    /\ ~cl.done
    /\ LET result == get_bit_vector_single(cl.read, ref_seqs)
       IN  cl' = [cl EXCEPT !.done = TRUE, !.raised = result.raised,
                            !.data = result.data]
    /\ UNCHANGED <<pm, histoVars, pipeVars, auxVars>>

NextClassify == Classify

SpecClassify == InitClassify /\ [][NextClassify]_vars

----------------------------------------------------------------------------
(* The generator: BitVectorGenerator                                       *)

\* The BitVector dataclass: the reads of a unit of work and their bit vector.
BitVector(reads, data) == [reads |-> reads, data |-> data]

\* The configuration of the runs of the model; percent_length_cutoff is the
\* fraction num / den.
PipeParams ==
    [ percent_length_cutoff |-> [num |-> 3, den |-> 4],
      map_score_cutoff |-> 15,
      mutation_count_cutoff |-> 1,
      summary_output_only |-> FALSE ]

MapQs == {PipeParams.map_score_cutoff - 1, PipeParams.map_score_cutoff}

\* The reads of the units of work: full-length reads with no, one and two
\* mismatches and one-base reads at each position, matching or not, each
\* with a mapping quality below and at the cutoff; every base quality is
\* above qscore_cutoff.  One more full-length read has the operation X, which
\* the decoder does not know, after a mismatch.
PipeReads ==
    { AlignedRead("q", RefName, 1, mapq, <<"2", "M">>, seq, <<";", ";">>) :
        mapq \in MapQs, seq \in {<<"A", "C">>, <<"G", "C">>, <<"G", "T">>} }
    \cup
    { AlignedRead("q", RefName, pos, mapq, <<"1", "M">>, <<b>>, <<";">>) :
        pos \in Positions, mapq \in MapQs, b \in {"A", "G"} }
    \cup
    { AlignedRead("q", RefName, 1, mapq, <<"1", "M", "1", "X">>,
                  <<"G", "C">>, <<";", ";">>) : mapq \in MapQs }

\* What the SAM iterator yields: one read, or the two mates of a fragment.
Units(is_paired) ==
    IF is_paired
      THEN {<<read_1, read_2>> : read_1 \in PipeReads, read_2 \in PipeReads}
      ELSE {<<read>> : read \in PipeReads}

\* BitVectorFileWriter.write_bit_vector(q_name, bit_vector) called with the
\* BitVector object: `pos not in bit_vector` raises TypeError at the first
\* position of range(start, end + 1); with an empty range the line is written.
write_bit_vector(lines, sequence, q_name) ==
    IF 1 <= Len(sequence)
      THEN [raised |-> "TypeError", written |-> lines]
      ELSE [raised |-> "none", written |-> Append(lines, <<q_name, <<>>, 0>>)]

\* MutationHistogram.record_bit_vector called with the BitVector object: the
\* two counters are incremented, then `pos not in bit_vector` raises TypeError
\* at the first coordinate; with no coordinate the read counts as unmutated.
record_BitVector_object(self) ==
    LET counted == [self EXCEPT !.num_reads = @ + 1, !.num_aligned = @ + 1]
    IN  IF get_nuc_coords(self) # {}
          THEN [raised |-> "TypeError", self |-> counted]
          ELSE [raised |-> "none",
                self |-> [counted EXCEPT !.num_of_mutations[0] = @ + 1]]

\* mh.record_skip(t); return
SkipUnit(histos, lines, rname, t) ==
    [ mut_histos |-> [histos EXCEPT ![rname] = record_skip(@, t)],
      written |-> lines,
      raised |-> "none" ]

\* The tail of __record_bit_vector, reached when no gate rejected the unit.
AcceptUnit(p, histos, lines, read, bit_vector) ==
    LET w == IF p.summary_output_only
               THEN [raised |-> "none", written |-> lines]
               ELSE write_bit_vector(lines, ref_seqs[read.rname], read.qname)
        r == record_BitVector_object(histos[read.rname])
    IN  IF w.raised # "none"
          THEN [mut_histos |-> histos, written |-> w.written, raised |-> w.raised]
          ELSE [mut_histos |-> [histos EXCEPT ![read.rname] = r.self],
                written |-> w.written,
                raised |-> r.raised]

\* The number of mutated bases of the vector within the histogram's coordinates.
CountMuts(self, data) ==
    Cardinality({pos \in self.start .. self.end :
                    pos \in DOMAIN data /\ data[pos] \in bases})

\* The least element of a non-empty set of integers.
Least(S) == CHOOSE x \in S : \A y \in S : x <= y

\* A plausible slip: the return after the too_many_muts skip left out, so the
\* rejected unit goes on to the writer and the histogram.
record_unit_no_return(p, histos, lines, bit_vector) ==
    LET reads == bit_vector.reads
        ref_seq == ref_seqs[reads[1].rname]
        self == histos[reads[1].rname]
        Short(read) ==
            Len(read.seq) * p.percent_length_cutoff.den
               < p.percent_length_cutoff.num * Len(ref_seq)
        rejected == {k \in DOMAIN reads :
                        Short(reads[k]) \/ reads[k].mapq < p.map_score_cutoff}
        skipped == SkipUnit(histos, lines, reads[1].rname, "too_many_muts")
    IN  IF rejected # {}
          THEN SkipUnit(histos, lines, reads[1].rname,
                        IF Short(reads[Least(rejected)]) THEN "short_read"
                        ELSE "low_mapq")
        ELSE IF CountMuts(self, bit_vector.data) > p.mutation_count_cutoff
          THEN AcceptUnit(p, skipped.mut_histos, lines, reads[Len(reads)],
                          bit_vector)
        ELSE AcceptUnit(p, histos, lines, reads[Len(reads)], bit_vector)

\* BitVectorGenerator.__record_bit_vector(bit_vector): the mates are tested
\* in turn, each for its length and then for its mapping quality, and the
\* first test that fails names the skip; then the mutations are counted.
record_unit(p, histos, lines, bit_vector) ==
    LET reads == bit_vector.reads
        ref_seq == ref_seqs[reads[1].rname]
        self == histos[reads[1].rname]
        Short(read) ==
            Len(read.seq) * p.percent_length_cutoff.den
               < p.percent_length_cutoff.num * Len(ref_seq)
        rejected == {k \in DOMAIN reads :
                        Short(reads[k]) \/ reads[k].mapq < p.map_score_cutoff}
    IN  IF rejected # {}
          THEN SkipUnit(histos, lines, reads[1].rname,
                        IF Short(reads[Least(rejected)]) THEN "short_read"
                        ELSE "low_mapq")
        ELSE IF CountMuts(self, bit_vector.data) > p.mutation_count_cutoff
          THEN SkipUnit(histos, lines, reads[1].rname, "too_many_muts")
        ELSE AcceptUnit(p, histos, lines, reads[Len(reads)], bit_vector)

InitPipe ==
    /\ \E summary_output_only \in BOOLEAN :
          params = [PipeParams EXCEPT
                      !.summary_output_only = summary_output_only]
    /\ paired \in BOOLEAN
    /\ mut_histos = [name \in DOMAIN ref_seqs |->
                       MutationHistogram(name, ref_seqs[name], "DMS", 1,
                                         Len(ref_seqs[name]))]
    /\ written = <<>>
    /\ gerr = "none"
    /\ nunits = 0
    /\ lastunit = IdleUnit
    /\ pm = IdlePair
    /\ cl = IdleRead
    /\ HistoIdle
    /\ AuxIdle

\* One turn of the loop of __generate_all_bit_vectors: the iterator
\* classifies the reads of the unit (and merges the mates), and
\* __record_bit_vector gates and records the BitVector.  An exception ends
\* the loop.  The reference test that opens __next__ is NextUnit's, in
\* SpecNext; HandleUnit takes up a unit after it.
HandleUnit(reads) ==
    /\ gerr = "none"
    /\ nunits < MaxUnits
    /\ nunits' = nunits + 1
    /\ LET result == IF paired
                       THEN get_bit_vector_paired(reads[1], reads[2], ref_seqs)
                       ELSE get_bit_vector_single(reads[1], ref_seqs)
           out == record_unit(params, mut_histos, written,
                              BitVector(reads, result.data))
       IN  /\ lastunit' = [reads |-> reads, data |-> result.data,
                           pre |-> mut_histos[reads[1].rname],
                           pre_written |-> written]
           /\ IF result.raised # "none"
                THEN /\ gerr' = result.raised
                     /\ UNCHANGED <<mut_histos, written>>
                ELSE /\ gerr' = out.raised
                     /\ mut_histos' = out.mut_histos
                     /\ written' = out.written
    /\ UNCHANGED <<params, paired, pm, cl, histoVars, auxVars>>

NextPipe == \E reads \in Units(paired) : HandleUnit(reads)

SpecPipe == InitPipe /\ [][NextPipe]_vars

----------------------------------------------------------------------------
(* Properties of the histogram                                             *)

\* The position-indexed arrays of a histogram.
ArrayFields ==
    {"cov_bases", "mut_bases", "del_bases", "ins_bases", "info_bases"}

\* Two histograms hold the same value in every counter field.
FieldsEqual(a, b) ==
    /\ a.num_reads = b.num_reads
    /\ a.num_aligned = b.num_aligned
    /\ \A t \in SkipReasons : a.skips[t] = b.skips[t]
    /\ a.num_of_mutations = b.num_of_mutations
    /\ a.cov_bases = b.cov_bases
    /\ a.mut_bases = b.mut_bases
    /\ a.del_bases = b.del_bases
    /\ a.ins_bases = b.ins_bases
    /\ a.info_bases = b.info_bases
    /\ \A b0 \in bases : a.mod_bases[b0] = b.mod_bases[b0]

\* Some identity field differs.
IdentityDiffers(a, b) ==
    \E f \in {"name", "sequence", "data_type", "start", "end", "structure"} :
        a[f] # b[f]

\* C1: the reads and skips of a run are split over the two shards, each a fresh
\* histogram of the same identity; after one shard is merged into the other
\* the receiver equals, field by field, the histogram that recorded them all.
C1_MergeEqualsWhole ==
    (last.op = "merge" /\ herr = "none") => FieldsEqual(mh[last.into], whole)

\* C2: merge is commutative: the receiver after H1.merge(H2) holds the same
\* counters as the receiver after H2.merge(H1).
C2_MergeCommutes ==
    (last.op = "merge" /\ herr = "none")
        => FieldsEqual(mh[last.into], merge(last.other, last.pre))

\* C3: merge is associative: for any three histograms recorded by the run
\* (the two shards and the histogram of all events, in any order and with
\* repetition), (H1.merge(H2)).merge(H3) holds the same counters as
\* H1.merge(H2.merge(H3)).
C3_MergeAssociative ==
    phase = "record" =>
        \A h1 \in {mh[1], mh[2], whole}, h2 \in {mh[1], mh[2], whole},
           h3 \in {mh[1], mh[2], whole} :
              FieldsEqual(merge(merge(h1, h2), h3), merge(h1, merge(h2, h3)))

\* Three different non-empty histograms, with deletions, mutations and skips
\* among them.
C3_Witness ==
    /\ phase = "record"
    /\ mh[1] # mh[2] /\ mh[1] # whole /\ mh[2] # whole
    /\ mh[1].num_reads > 0 /\ mh[2].num_reads > 0
    /\ mh[1].del_bases[1] > 0
    /\ mh[2].mut_bases[2] > 0

\* C4: merge raises exactly when one of name, sequence, data_type, start, end,
\* structure differs, and a merge that raised has changed neither histogram.
C4_MergeIdentityGuard ==
    last.op = "merge" =>
        /\ herr = "ValueError" <=> IdentityDiffers(last.pre, last.other)
        /\ herr = "ValueError" =>
              /\ mh[last.into] = last.pre
              /\ mh[last.from] = last.other
        /\ herr = "none" => mh[last.from] = last.other

\* A merge that raised on the structure annotation alone, the other histogram
\* holding a recorded read.
C4_Witness ==
    /\ last.op = "merge"
    /\ herr = "ValueError"
    /\ last.pre.structure # last.other.structure
    /\ \A f \in {"name", "sequence", "data_type", "start", "end"} :
          last.pre[f] = last.other[f]
    /\ last.other.num_aligned = 1

\* pos is a position of [start, end] that the bit vector holds.
Scanned(self, bit_vector, pos) ==
    /\ self.start <= pos /\ pos <= self.end
    /\ pos \in DOMAIN bit_vector

\* C5: record_bit_vector adds one to num_reads and num_aligned; at each position
\* of [start, end] present in the vector it adds one to info_bases, one to
\* cov_bases unless the symbol is "?", one to mut_bases and mod_bases[b] when the
\* symbol is the base b, one to del_bases when it is "1"; it adds one to
\* num_of_mutations[k], k the number of base symbols in [start, end]; nothing
\* else changes.
C5_RecordEffect ==
    last.op = "record_bit_vector" =>
        LET pre == last.pre
            bv == last.bit_vector
            now == mh[last.into]
            k == Cardinality({pos \in DOMAIN bv :
                                 Scanned(pre, bv, pos) /\ bv[pos] \in {"A", "C", "G", "T"}})
            Inc(cond) == IF cond THEN 1 ELSE 0
        IN  /\ now.num_reads = pre.num_reads + 1
            /\ now.num_aligned = pre.num_aligned + 1
            /\ \A pos \in 0..Len(pre.sequence) :
                  /\ now.info_bases[pos] =
                        pre.info_bases[pos] + Inc(Scanned(pre, bv, pos))
                  /\ now.cov_bases[pos] =
                        pre.cov_bases[pos]
                          + Inc(Scanned(pre, bv, pos) /\ bv[pos] # "?")
                  /\ now.mut_bases[pos] =
                        pre.mut_bases[pos]
                          + Inc(Scanned(pre, bv, pos) /\ bv[pos] \in {"A", "C", "G", "T"})
                  /\ \A b \in {"A", "C", "G", "T"} :
                        now.mod_bases[b][pos] =
                           pre.mod_bases[b][pos]
                             + Inc(Scanned(pre, bv, pos) /\ bv[pos] = b)
                  /\ now.del_bases[pos] =
                        pre.del_bases[pos]
                          + Inc(Scanned(pre, bv, pos) /\ bv[pos] = "1")
                  /\ now.ins_bases[pos] = pre.ins_bases[pos]
            /\ \A n \in 0..Len(pre.sequence) :
                  now.num_of_mutations[n] = pre.num_of_mutations[n] + Inc(n = k)
            /\ now.skips = pre.skips
            /\ ~IdentityDiffers(now, pre)

\* A vector with an ambiguous position and a mutated base outside [start, end],
\* recorded into a histogram that already holds a read.
C5_Witness ==
    /\ last.op = "record_bit_vector"
    /\ last.pre.num_aligned = 1
    /\ last.pre.end = 1
    /\ DOMAIN last.bit_vector = {1, 2}
    /\ last.bit_vector[1] = "?"
    /\ last.bit_vector[2] = "T"
    /\ mh[last.into].num_of_mutations[0] = 2

\* C6: record_skip(t) adds one to num_reads and to skips[t] and changes nothing
\* else: not num_aligned, not another skip count, not num_of_mutations, not a
\* position-indexed array.
C6_RecordSkipFrame ==
    last.op = "record_skip" =>
        LET pre == last.pre
            now == mh[last.into]
        IN  /\ now.num_reads = pre.num_reads + 1
            /\ now.skips[last.t] = pre.skips[last.t] + 1
            /\ \A t \in SkipReasons \ {last.t} : now.skips[t] = pre.skips[t]
            /\ now.num_aligned = pre.num_aligned
            /\ now.num_of_mutations = pre.num_of_mutations
            /\ \A f \in ArrayFields : now[f] = pre[f]
            /\ now.mod_bases = pre.mod_bases

\* A skip recorded into a histogram that holds a read with a mutation.
C6_Witness ==
    /\ last.op = "record_skip"
    /\ last.t = "too_many_muts"
    /\ last.pre.num_aligned = 1
    /\ last.pre.mut_bases[1] = 1
    /\ mh[last.into].num_reads = 2

----------------------------------------------------------------------------
(* Properties of the decoder and of the generator                          *)

\* The symbol the precedence rules give two different symbols of one position.
Precedence(s1, s2) ==
    IF s1 = "0" \/ s2 = "0" THEN "0"
    ELSE IF s1 = "?" THEN s2
    ELSE IF s2 = "?" THEN s1
    ELSE IF s1 = "*" THEN s2
    ELSE IF s2 = "*" THEN s1
    ELSE "?"

\* C7: the merge of two bit vectors holds exactly the union of their
\* positions; a position of one vector keeps its symbol; equal symbols are
\* kept; different symbols give NoMutation if either is NoMutation, else the
\* other symbol if either is Ambiguous, else the other symbol if either is
\* Missing, else Ambiguous (two different bases, or a deletion and a base).
C7_PairMergeRules ==
    pm.done =>
        LET bv1 == pm.bit_vector_1
            bv2 == pm.bit_vector_2
        IN  /\ DOMAIN pm.merged = DOMAIN bv1 \cup DOMAIN bv2
            /\ \A pos \in DOMAIN bv1 \ DOMAIN bv2 : pm.merged[pos] = bv1[pos]
            /\ \A pos \in DOMAIN bv2 \ DOMAIN bv1 : pm.merged[pos] = bv2[pos]
            /\ \A pos \in DOMAIN bv1 \cap DOMAIN bv2 :
                  pm.merged[pos] =
                     IF bv1[pos] = bv2[pos] THEN bv1[pos]
                     ELSE Precedence(bv1[pos], bv2[pos])
            /\ bv1 = bv2 => pm.merged = bv1

\* A merged pair with a position of one mate only, an Ambiguous against a
\* Missing, and so the second and third rule both in play.
C7_Witness ==
    /\ pm.done
    /\ DOMAIN pm.bit_vector_1 = {1}
    /\ DOMAIN pm.bit_vector_2 = {1, 2}
    /\ pm.bit_vector_1[1] = "?"
    /\ pm.bit_vector_2[1] = "*"
    /\ pm.bit_vector_2[2] = "1"
    /\ pm.merged[1] = "*"
    /\ pm.merged[2] = "1"

\* The read of cl is one match/mismatch run.
OneMatchRun == cl.read.cigar \in {<<"1", "M">>, <<"2", "M">>}

\* C8: in a match/mismatch run a position is Ambiguous exactly when the
\* quality of its read base is strictly below the cutoff; at or above the
\* cutoff it is NoMutation when the read base equals the reference base and
\* the read base otherwise.
C8_AmbiguousBelowCutoff ==
    (cl.done /\ OneMatchRun) =>
        \A k \in 1 .. Len(cl.read.seq) :
            LET pos == cl.read.pos + k - 1
                q == phred_qscores[cl.read.qual[k]]
            IN  /\ cl.data[pos] = "?" <=> q < qscore_cutoff
                /\ q >= qscore_cutoff =>
                      cl.data[pos] = IF cl.read.seq[k] = RefSeq[pos] THEN "0"
                                     ELSE cl.read.seq[k]

\* The gates of a unit of work, as the configuration states them.
SomeMateShort(reads) ==
    \E k \in DOMAIN reads :
        Len(reads[k].seq) * params.percent_length_cutoff.den
           < params.percent_length_cutoff.num * Len(ref_seqs[reads[k].rname])

SomeMateLowMapq(reads) ==
    \E k \in DOMAIN reads : reads[k].mapq < params.map_score_cutoff

TooManyMuts(data) ==
    Cardinality({pos \in DOMAIN data : data[pos] \in {"A", "C", "G", "T"}})
       > params.mutation_count_cutoff

\* The first gate, in the order short_read, low_mapq, too_many_muts, that the
\* last unit of work fails.
FirstFailingGate ==
    IF SomeMateShort(lastunit.reads) THEN "short_read"
    ELSE IF SomeMateLowMapq(lastunit.reads) THEN "low_mapq"
    ELSE IF TooManyMuts(lastunit.data) THEN "too_many_muts"
    ELSE "none"

\* The histogram of the last unit's reference.
UnitHistogram == mut_histos[lastunit.reads[1].rname]

\* The skip counts the last unit of work raised, each by how much.
SkipsRaised ==
    [t \in SkipReasons |-> UnitHistogram.skips[t] - lastunit.pre.skips[t]]

\* C9: the gates are evaluated in the order short_read, low_mapq,
\* too_many_muts, and the one skip recorded for a unit is that of the first
\* gate, in this order, that the unit fails.
C9_FirstFailingGateRecorded ==
    (nunits > 0 /\ FirstFailingGate # "none") =>
        SkipsRaised = [t \in SkipReasons |->
                         IF t = FirstFailingGate THEN 1 ELSE 0]

\* C10: a unit that fails a gate changes its histogram by one more read and
\* one more skip of one reason and nothing else, and no line is written.
C10_RejectedUnitFrame ==
    (nunits > 0 /\ FirstFailingGate # "none") =>
        /\ gerr = "none"
        /\ UnitHistogram.num_reads = lastunit.pre.num_reads + 1
        /\ \E t \in SkipReasons :
              SkipsRaised = [u \in SkipReasons |-> IF u = t THEN 1 ELSE 0]
        /\ UnitHistogram.num_aligned = lastunit.pre.num_aligned
        /\ UnitHistogram.num_of_mutations = lastunit.pre.num_of_mutations
        /\ \A f \in ArrayFields : UnitHistogram[f] = lastunit.pre[f]
        /\ UnitHistogram.mod_bases = lastunit.pre.mod_bases
        /\ written = lastunit.pre_written

\* A mate pair rejected for its mutations, after a unit rejected for its length.
C10_Witness ==
    /\ nunits = 2
    /\ paired
    /\ FirstFailingGate = "too_many_muts"
    /\ lastunit.pre.skips["short_read"] = 1
    /\ UnitHistogram.skips["too_many_muts"] = 1
    /\ UnitHistogram.num_reads = 2

----------------------------------------------------------------------------
(* The ambiguity check on its own                                          *)

\* Longest reference of SpecAmbig that is drawn base by base.
MaxAmbigRefLen == 4

\* Longest deletion run of SpecAmbig and SpecDel.
MaxDelLen == 2

\* The references of SpecAmbig: every sequence over A and C up to
\* MaxAmbigRefLen bases, and references longer than num_of_surbases made of
\* A with at most one C.
AmbigRefs ==
    UNION {SeqsOf({"A", "C"}, n) : n \in 1 .. MaxAmbigRefLen}
    \cup
    { [k \in 1 .. num_of_surbases + d |-> IF k = c THEN "C" ELSE "A"] :
        d \in 1 .. 2, c \in 0 .. num_of_surbases + 2 }

\* A deletion of `length` bases that ends at reference position i (1-based)
\* and lies inside the reference.
InitAmbig ==
    /\ \E ref_seq \in AmbigRefs, length \in 1 .. MaxDelLen :
          \E i \in length .. Len(ref_seq) :
              am = [done |-> FALSE, ref_seq |-> ref_seq, i |-> i,
                    length |-> length, result |-> FALSE]
    /\ cg = IdleCall /\ nx = IdleCall /\ dist = IdleCall /\ fd = IdleCall
    /\ DecoderIdle
    /\ HistoIdle
    /\ PipeIdle

\* is_ambig = self.__calc_ambig_reads(ref_seq, i, length)
CalcAmbig ==
    /\ ~am.done
    /\ am' = [am EXCEPT !.done = TRUE,
                        !.result = calc_ambig_reads(am.ref_seq, am.i,
                                                    am.length)]
    /\ UNCHANGED <<cg, nx, dist, fd, pm, cl, histoVars, pipeVars>>

NextAmbig == CalcAmbig

SpecAmbig == InitAmbig /\ [][NextAmbig]_vars

\* s[a:b] with both indices clipped to the sequence: the part of the window
\* before the first or after the last element is empty.
ClippedSlice(s, a, b) ==
    LET lo == IF a < 0 THEN 0 ELSE a
        hi == IF b > Len(s) THEN Len(s) ELSE b
    IN  IF hi <= lo THEN <<>> ELSE SubSeq(s, lo + 1, hi)

\* The flanking context of a deletion of `length` bases ending at `del_end`,
\* inside the window of the deletion that ends at i.
ClippedContext(ref_seq, i, length, del_end) ==
    ClippedSlice(ref_seq, i - length - num_of_surbases, del_end - length)
      \o ClippedSlice(ref_seq, del_end, i + num_of_surbases)

\* Some alternate end point has the flanking context of the true deletion.
AlternatePlacement(ref_seq, i, length) ==
    \E del_end \in (i - length) .. (i + length) :
        /\ del_end # i
        /\ ClippedContext(ref_seq, i, length, del_end)
             = ClippedContext(ref_seq, i, length, i)

\* C11: the ambiguity check returns true whenever an alternate end point in
\* [i-L, i+L] other than i has the flanking context of the true deletion, the
\* flanking windows being clipped to the reference bounds.
C11_AmbiguousWhenAlternatePlacement ==
    (am.done /\ AlternatePlacement(am.ref_seq, am.i, am.length))
        => am.result = TRUE

----------------------------------------------------------------------------
(* Properties of the classification of a read                              *)

\* C12: every position of the bit vector of a read whose aligned span lies
\* within the reference is a position of the reference, 1 .. len(reference),
\* a trailing soft clip after the last reference position included.
C12_PositionsWithinReference ==
    (cl.done /\ cl.raised = "none")
        => \A pos \in DOMAIN cl.data :
              1 <= pos /\ pos <= Len(ref_seqs[cl.read.rname])

----------------------------------------------------------------------------
(* The mutation-count distribution of a histogram                          *)

\* Number of reads recorded in a run of SpecDist.
MaxDistReads == 3

\* A reference long enough for reads with four and with five mutations.
DistSeq == <<"A", "C", "A", "C", "A">>

\* The reads of SpecDist: G at the first k positions, and either no mutation
\* or an ambiguous call at the others.
DistBitVectors ==
    { [pos \in 1 .. Len(DistSeq) |-> IF pos <= k THEN "G" ELSE fill] :
        k \in 0 .. Len(DistSeq), fill \in {nomut_bit, ambig_info} }

\* The Python list self.num_of_mutations: element k of the list is arr[k].
AsList(arr) == [n \in 1 .. Cardinality(DOMAIN arr) |-> arr[n - 1]]

\* sum() of a list of numbers.
RECURSIVE SumList(_)
SumList(l) == IF l = <<>> THEN 0 ELSE l[1] + SumList(Tail(l))

\* The counts get_percent_mutations divides by num_aligned:
\* self.num_of_mutations[0:4] + [sum(self.num_of_mutations[5:])].
get_percent_mutations_data(self) ==
    LET l == AsList(self.num_of_mutations)
    IN  PySlice(l, 0, 4) \o <<SumList(PySlice(l, 5, Len(l)))>>

InitDist ==
    /\ dist = [done |-> FALSE,
               h |-> MutationHistogram(RefName, DistSeq, "DMS", 1,
                                       Len(DistSeq)),
               reads |-> <<>>,
               data |-> <<>>]
    /\ am = IdleCall /\ cg = IdleCall /\ nx = IdleCall /\ fd = IdleCall
    /\ DecoderIdle
    /\ HistoIdle
    /\ PipeIdle

\* mh.record_bit_vector(bit_vector, p), then mh.get_percent_mutations() as
\* the summary reads it.
RecordDist(bit_vector) ==
    /\ Len(dist.reads) < MaxDistReads
    /\ LET h == record_bit_vector(dist.h, bit_vector)
       IN  dist' = [done |-> TRUE, h |-> h,
                    reads |-> Append(dist.reads, bit_vector),
                    data |-> get_percent_mutations_data(h)]
    /\ UNCHANGED <<am, cg, nx, fd, pm, cl, histoVars, pipeVars>>

NextDist == \E bit_vector \in DistBitVectors : RecordDist(bit_vector)

SpecDist == InitDist /\ [][NextDist]_vars

\* The number of recorded reads whose mutation count is in the set S.
ReadsWith(S) ==
    Cardinality({n \in DOMAIN dist.reads :
                    CountMuts(dist.h, dist.reads[n]) \in S})

\* C13: the distribution has five buckets: the reads with exactly 0, 1, 2 and
\* 3 mutations, and the reads with 4 or more; the five counts sum to
\* num_aligned.
C13_FiveBucketsCoverAllReads ==
    dist.done =>
        /\ Len(dist.data) = 5
        /\ \A k \in 0 .. 3 : dist.data[k + 1] = ReadsWith({k})
        /\ dist.data[5] = ReadsWith(4 .. Len(dist.h.sequence))
        /\ SumList(dist.data) = dist.h.num_aligned

----------------------------------------------------------------------------
(* The CIGAR decoder on its own                                            *)

\* Longest CIGAR string of SpecCigar, in characters.
MaxCigarLen == 3

\* The characters of the CIGAR strings of SpecCigar: digits, operation
\* letters, and "*" (the CIGAR of a read without alignment).
CigarChars == {"1", "2", "M", "D", "*"}

InitCigar ==
    /\ \E n \in 1 .. MaxCigarLen : \E text \in SeqsOf(CigarChars, n) :
          cg = [done |-> FALSE, text |-> text, result |-> <<>>,
                raised |-> "none"]
    /\ am = IdleCall /\ nx = IdleCall /\ dist = IdleCall /\ fd = IdleCall
    /\ DecoderIdle
    /\ HistoIdle
    /\ PipeIdle

\* cigar_ops = self._parse_cigar(read.cigar): re.findall on a string raises
\* nothing.
ParseCigar ==
    /\ ~cg.done
    /\ cg' = [cg EXCEPT !.done = TRUE, !.result = parse_cigar(cg.text),
                        !.raised = "none"]
    /\ UNCHANGED <<am, nx, dist, fd, pm, cl, histoVars, pipeVars>>

NextCigar == ParseCigar

SpecCigar == InitCigar /\ [][NextCigar]_vars

\* The (length, operation) pairs of s from index k on when all of it is a
\* run of digits followed by one letter, again and again; ok is FALSE when
\* some character is left outside every pair.
RECURSIVE Tokenize(_, _)
Tokenize(s, k) ==
    IF k > Len(s) THEN [ok |-> TRUE, pairs |-> <<>>]
    ELSE LET e == DigitRunEnd(s, k)
         IN  IF e > k /\ e <= Len(s) /\ s[e] \in UpperChars
               THEN LET rest == Tokenize(s, e + 1)
                    IN  [ok |-> rest.ok,
                         pairs |-> <<(<<SubSeq(s, k, e - 1), s[e]>>)>>
                                     \o rest.pairs]
               ELSE [ok |-> FALSE, pairs |-> <<>>]

\* C14: decoding a CIGAR string returns the ordered (length, operation) pairs
\* when the whole string tokenizes into such pairs, and fails with an error
\* when it does not; it never returns the pairs that match and drops the rest.
C14_MalformedCigarFails ==
    cg.done =>
        IF Tokenize(cg.text, 1).ok
          THEN cg.raised = "none" /\ cg.result = Tokenize(cg.text, 1).pairs
          ELSE cg.raised # "none"

----------------------------------------------------------------------------
(* The iterator: BitVectorIterator.__next__                                *)

\* The reads the SAM iterator yields in SpecNext: those of PipeReads, aligned
\* to the loaded reference or to one the FASTA file does not hold.
NextReads ==
    {[read EXCEPT !.rname = rname] :
        read \in PipeReads, rname \in {RefName, "other"}}

\* `read in self.__ref_seqs`: the AlignedRead object itself is looked up among
\* the keys of the dictionary, which are reference names.  An object that
\* cannot be hashed raises TypeError; one that can is equal to no name.
read_in_ref_seqs(read, seqs, hashable) ==
    IF hashable THEN [raised |-> "none", found |-> FALSE]
    ELSE [raised |-> "TypeError", found |-> FALSE]

\* BitVectorIterator.__next__ on the reads of one unit of work: the first
\* read the test fails for ends the call.
next_unit(reads, is_paired, seqs, hashable) ==
    LET test == read_in_ref_seqs(reads[1], seqs, hashable)
        result == IF is_paired
                    THEN get_bit_vector_paired(reads[1], reads[2], seqs)
                    ELSE get_bit_vector_single(reads[1], seqs)
    IN  IF test.raised # "none"
          THEN [raised |-> test.raised, data |-> <<>>]
        ELSE IF \E k \in DOMAIN reads :
                   ~read_in_ref_seqs(reads[k], seqs, hashable).found
          THEN [raised |-> "ValueError", data |-> <<>>]
        ELSE result

\* Whether AlignedRead objects can be hashed is a property of the class, the
\* same for every read of a run.
InitNext ==
    /\ \E is_paired \in BOOLEAN, hashable \in BOOLEAN :
          \E reads \in IF is_paired
                         THEN {<<read_1, read_2>> :
                                  read_1 \in NextReads, read_2 \in NextReads}
                         ELSE {<<read>> : read \in NextReads} :
              nx = [done |-> FALSE, reads |-> reads, paired |-> is_paired,
                    hashable |-> hashable, raised |-> "none", data |-> <<>>]
    /\ am = IdleCall /\ cg = IdleCall /\ dist = IdleCall /\ fd = IdleCall
    /\ DecoderIdle
    /\ HistoIdle
    /\ PipeIdle

\* bit_vector = next(self.__bit_vec_iterator)
NextUnit ==
    /\ ~nx.done
    /\ LET out == next_unit(nx.reads, nx.paired, ref_seqs, nx.hashable)
       IN  nx' = [nx EXCEPT !.done = TRUE, !.raised = out.raised,
                            !.data = out.data]
    /\ UNCHANGED <<am, cg, dist, fd, pm, cl, histoVars, pipeVars>>

NextNext == NextUnit

SpecNext == InitNext /\ [][NextNext]_vars

\* Some read of the unit names a reference the loaded set does not hold.
NamesUnknownReference(reads) ==
    \E k \in DOMAIN reads : reads[k].rname \notin DOMAIN ref_seqs

\* C15: pulling the next unit of work raises the unknown-reference error if
\* and only if some read of the unit names a reference absent from the loaded
\* set; a unit whose reads all name a loaded reference is classified and
\* yields a bit vector.
C15_UnknownReferenceIffAbsent ==
    nx.done =>
        /\ nx.raised = "ValueError" <=> NamesUnknownReference(nx.reads)
        /\ ~NamesUnknownReference(nx.reads) => nx.raised = "none"

----------------------------------------------------------------------------
(* Properties of a read with an operation the decoder does not know        *)

\* The CIGAR of the read has an operation other than M, D, I and S.
HasUnknownOperation(read) ==
    \E n \in DOMAIN parse_cigar(read.cigar) :
        parse_cigar(read.cigar)[n][2] \notin {"M", "D", "I", "S"}

\* C16: a unit whose reads have an unrecognized CIGAR operation is classified
\* to the empty bit vector, raises no error, and changes neither num_aligned,
\* nor the mutation-count distribution, nor a position-indexed array.
C16_UnknownOperationContributesNothing ==
    (nunits > 0 /\ \A k \in DOMAIN lastunit.reads :
                      HasUnknownOperation(lastunit.reads[k])) =>
        /\ lastunit.data = <<>>
        /\ gerr = "none"
        /\ UnitHistogram.num_aligned = lastunit.pre.num_aligned
        /\ UnitHistogram.num_of_mutations = lastunit.pre.num_of_mutations
        /\ \A f \in ArrayFields : UnitHistogram[f] = lastunit.pre[f]
        /\ UnitHistogram.mod_bases = lastunit.pre.mod_bases

----------------------------------------------------------------------------
(* The classification of reads with a deletion run                         *)

\* The references of SpecDel: a homopolymer, two repeats and a sequence
\* without repetition.
del_ref_seqs ==
    [name \in {"ref_a", "ref_b", "ref_c", "ref_d"} |->
        CASE name = "ref_a" -> <<"A", "A", "A", "A">>
          [] name = "ref_b" -> <<"A", "A", "C", "C">>
          [] name = "ref_c" -> <<"A", "C", "A", "C">>
          [] name = "ref_d" -> <<"A", "C", "G", "T">>]

\* The decimal digits of a length below ten.
Digit(n) == CHOOSE c \in DigitChars : DigitValue(c) = n

\* The CIGAR strings of SpecDel: a deletion run of 1 .. MaxDelLen bases, on its
\* own, after one matched base, before one, or between two.
DelCigars ==
    { [text |-> (IF lead = 1 THEN <<"1", "M">> ELSE <<>>)
                  \o <<Digit(length), "D">>
                  \o (IF trail = 1 THEN <<"1", "M">> ELSE <<>>),
       lead |-> lead, length |-> length, trail |-> trail] :
        lead \in 0 .. 1, length \in 1 .. MaxDelLen, trail \in 0 .. 1 }

InitDel ==
    /\ \E c \in DelCigars, rname \in DOMAIN del_ref_seqs :
          \E pos \in 1 .. Len(del_ref_seqs[rname]) :
              /\ pos + c.lead + c.length + c.trail - 1
                    <= Len(del_ref_seqs[rname])
              /\ \E seq \in SeqsOf({"A", "C"}, c.lead + c.trail) :
                    cl = [IdleRead EXCEPT
                            !.read = AlignedRead("q", rname, pos, 0, c.text,
                                        seq, [k \in DOMAIN seq |-> ";"])]
    /\ pm = IdlePair
    /\ HistoIdle
    /\ PipeIdle
    /\ AuxIdle

\* data = self.__get_bit_vector_single(reads[0])
ClassifyDel ==
    /\ ~cl.done
    /\ LET result == get_bit_vector_single(cl.read, del_ref_seqs)
       IN  cl' = [cl EXCEPT !.done = TRUE, !.raised = result.raised,
                            !.data = result.data]
    /\ UNCHANGED <<pm, histoVars, pipeVars, auxVars>>

NextDel == ClassifyDel

SpecDel == InitDel /\ [][NextDel]_vars

\* The deletion run of the read of cl: its length, the number of bases
\* matched before it and after it, and its first reference coordinate.
DelRun ==
    LET ops == parse_cigar(cl.read.cigar)
        d == CHOOSE n \in DOMAIN ops : ops[n][2] = "D"
        lead == IF d = 1 THEN 0 ELSE ToInt(ops[1][1])
    IN  [length |-> ToInt(ops[d][1]),
         lead |-> lead,
         trail |-> IF d = Len(ops) THEN 0 ELSE ToInt(ops[d + 1][1]),
         i |-> cl.read.pos + lead]

\* C17: a deletion run of length L that starts at reference coordinate i marks
\* i .. i+L-2 Ambiguous, marks i+L-1 Ambiguous when the ambiguity check at that
\* position with L is true and Deletion otherwise, moves the reference
\* coordinate on by L and leaves the read coordinate where it was: the base
\* matched after the run is the next read base, at position i+L.
C17_DeletionRun ==
    cl.done =>
        LET r == DelRun
            ref_seq == del_ref_seqs[cl.read.rname]
            last_del == r.i + r.length - 1
        IN  /\ cl.raised = "none"
            /\ DOMAIN cl.data = cl.read.pos .. (last_del + r.trail)
            /\ \A pos \in r.i .. last_del - 1 : cl.data[pos] = "?"
            /\ cl.data[last_del] =
                  IF calc_ambig_reads(ref_seq, last_del, r.length)
                    THEN "?" ELSE "1"
            /\ r.trail = 1 =>
                  cl.data[last_del + 1] =
                     IF cl.read.seq[r.lead + 1] = ref_seq[last_del + 1]
                       THEN "0" ELSE cl.read.seq[r.lead + 1]

\* A two-base deletion between two matched bases whose last position is a
\* confident Deletion.
C17_Witness ==
    /\ cl.done
    /\ DelRun.length = 2 /\ DelRun.lead = 1 /\ DelRun.trail = 1
    /\ cl.data[DelRun.i] = "?"
    /\ cl.data[DelRun.i + 1] = "1"

\* The same run in a homopolymer: both positions Ambiguous.
DelRunInHomopolymer ==
    /\ cl.done
    /\ DelRun.length = 2
    /\ cl.data[DelRun.i] = "?"
    /\ cl.data[DelRun.i + 1] = "?"

----------------------------------------------------------------------------
(* The unhandled combination of the pair merge                             *)

\* C18: for two bit vectors over the eight symbols the pair merge never takes
\* its else branch (the warning of an unhandled combination): every pair of
\* different symbols at a shared position falls under one of the five rules.
C18_NoUnhandledCombination ==
    pm.done => ~pm.warned

\* A merged pair with a base against a deletion at one shared position and two
\* different bases at the other.
C18_Witness ==
    /\ pm.done
    /\ pm.bit_vector_1 = <<"G", "A">>
    /\ pm.bit_vector_2 = <<"1", "T">>
    /\ pm.merged = <<"?", "?">>

----------------------------------------------------------------------------
(* The read counters of a histogram                                        *)

\* num_reads is num_aligned plus the skips, and the mutation-count
\* distribution sums to num_aligned.
CountersConsistent(h) ==
    /\ h.num_reads = h.num_aligned + h.skips["low_mapq"]
                       + h.skips["short_read"] + h.skips["too_many_muts"]
    /\ SumList(AsList(h.num_of_mutations)) = h.num_aligned

\* C19: in every histogram reached from a fresh one by record_bit_vector,
\* record_skip and successful merges, num_reads equals num_aligned plus the
\* sum of the skip counts, and the mutation-count distribution sums to
\* num_aligned.
C19_ReadCountersConsistent ==
    herr = "none" =>
        /\ CountersConsistent(whole)
        /\ \A i \in Shards : CountersConsistent(mh[i])

\* A shard with a recorded read merged into a shard with a skip.
C19_Witness ==
    /\ phase = "merged"
    /\ herr = "none"
    /\ last.pre.num_reads = 1 /\ last.pre.num_aligned = 0
    /\ last.other.num_aligned = 1
    /\ mh[last.into].num_reads = 2
    /\ mh[last.into].num_aligned = 1

----------------------------------------------------------------------------
(* The fold of the per-batch dictionaries                                  *)

\* Number of per-batch dictionaries in the list of SpecFold.
MaxDicts == 3

\* The reference names of SpecFold, in the order the dictionaries hold them.
FoldNames == <<"ref_a", "ref_b">>

\* What a batch has recorded for a reference: one read with a mutation and a
\* deletion, or one skipped read.
FoldHistograms(name) ==
    LET fresh == MutationHistogram(name, RefSeq, "DMS", 1, Len(RefSeq))
    IN  { record_bit_vector(fresh, <<"G", del_bit>>),
          record_skip(fresh, "low_mapq") }

\* A dictionary holds references to histogram objects: the object the batch
\* k made for a name is <<k, name>>, and the heap gives its fields.
RECURSIVE MergeKeys(_, _, _, _)
MergeKeys(left, right, heap, keys) ==
    IF keys = <<>> THEN [left |-> left, heap |-> heap, raised |-> "none"]
    ELSE LET key == Head(keys)
         IN  IF key \in DOMAIN left
               THEN IF IdentityMismatch(heap[left[key]], heap[right[key]])
                      THEN [left |-> left, heap |-> heap,
                            raised |-> "ValueError"]
                      ELSE MergeKeys(left, right,
                              [heap EXCEPT ![left[key]] =
                                  merge(@, heap[right[key]])],
                              Tail(keys))
               ELSE MergeKeys(left @@ (key :> right[key]), right, heap,
                              Tail(keys))

\* merge_mut_histo_dicts(left, right): the keys of right in their order.
merge_mut_histo_dicts(left, right, heap) ==
    MergeKeys(left, right, heap,
              SelectSeq(FoldNames, LAMBDA name : name \in DOMAIN right))

\* The loop of merge_all_merge_mut_histo_dicts from the k-th dictionary on.
RECURSIVE FoldDicts(_, _, _, _)
FoldDicts(mut_histo_dicts, k, merged, heap) ==
    IF k > Len(mut_histo_dicts)
      THEN [left |-> merged, heap |-> heap, raised |-> "none"]
      ELSE LET step == merge_mut_histo_dicts(merged, mut_histo_dicts[k], heap)
           IN  IF step.raised # "none" THEN step
               ELSE FoldDicts(mut_histo_dicts, k + 1, step.left, step.heap)

\* merged = mut_histos.pop(0), then the loop.
merge_all_merge_mut_histo_dicts(mut_histo_dicts, heap) ==
    FoldDicts(mut_histo_dicts, 2, mut_histo_dicts[1], heap)

\* The objects of a list of dictionaries whose k-th one holds the names
\* held[k].
FoldObjects(held) ==
    {o \in (DOMAIN held) \X {"ref_a", "ref_b"} : o[2] \in held[o[1]]}

InitFold ==
    /\ \E n \in 1 .. MaxDicts :
          \E held \in [1 .. n -> SUBSET {"ref_a", "ref_b"}] :
             \E heap \in [FoldObjects(held) ->
                            FoldHistograms("ref_a") \cup FoldHistograms("ref_b")] :
                /\ \A o \in FoldObjects(held) : heap[o].name = o[2]
                /\ fd = [done |-> FALSE,
                         dicts |-> [k \in 1 .. n |->
                                      [name \in held[k] |-> <<k, name>>]],
                         heap |-> heap, pre |-> heap,
                         merged |-> <<>>, raised |-> "none"]
    /\ am = IdleCall /\ cg = IdleCall /\ nx = IdleCall /\ dist = IdleCall
    /\ DecoderIdle
    /\ HistoIdle
    /\ PipeIdle

\* merged = merge_all_merge_mut_histo_dicts(mut_histos)
MergeAll ==
    /\ ~fd.done
    /\ LET out == merge_all_merge_mut_histo_dicts(fd.dicts, fd.heap)
       IN  fd' = [fd EXCEPT !.done = TRUE, !.heap = out.heap,
                            !.merged = out.left, !.raised = out.raised]
    /\ UNCHANGED <<am, cg, nx, dist, pm, cl, histoVars, pipeVars>>

NextFold == MergeAll

SpecFold == InitFold /\ [][NextFold]_vars

\* C20: the fold never changes a histogram of the second or a later
\* dictionary: after it each of them has the counters it had before.
C20_LaterDictionariesUnchanged ==
    fd.done =>
        \A k \in 2 .. Len(fd.dicts) : \A name \in DOMAIN fd.dicts[k] :
            /\ FieldsEqual(fd.heap[fd.dicts[k][name]],
                           fd.pre[fd.dicts[k][name]])
            /\ fd.dicts[k][name] = <<k, name>>

====
